---- MODULE Spec2Model ----
(***************************************************************************)
(* The Analysis Controller of fraud-detector-ui (src/App.jsx): the React   *)
(* state of the App component, the analyzeAddress click handler with its   *)
(* two suspension points (await fetch, await response.json()), and the     *)
(* guards the rendered input and button put on the UI events.              *)
(*                                                                         *)
(* A state is the React state once a handler or a continuation has run to  *)
(* its next await or to its end: JavaScript runs each without interruption.*)
(* Whether the App renders between two updates of one such run is decided  *)
(* where the React root is created, outside App.jsx, and is not modelled.  *)
(*                                                                         *)
(* A JavaScript string is a sequence of one-character strings, so that     *)
(* trim(), startsWith() and length are computed, not assumed.              *)
(***************************************************************************)
EXTENDS Integers, Sequences, FiniteSets, TLC

\* ------------------------------------------------------------- bounds
\* Longest run of whitespace put before or after an input.
MaxPad == 1
\* The most requests already pending when the handler is called directly.
MaxCalls == 2

\* ---------------------------------------------------------- constants
\* address.length !== 42
AddrLen == 42

\* The characters String.prototype.trim() strips: ECMAScript's WhiteSpace and
\* LineTerminator. A character outside ASCII, and the vertical tab, is written
\* as its code point.
WhiteSpace ==
    {" ", "\t", "\n", "\r", "\f", "U+000B", "U+00A0", "U+1680",
     "U+2000", "U+2001", "U+2002", "U+2003", "U+2004", "U+2005", "U+2006",
     "U+2007", "U+2008", "U+2009", "U+200A", "U+2028", "U+2029", "U+202F",
     "U+205F", "U+3000", "U+FEFF"}

\* The whitespace a user types or pastes around an address in a text input.
PadChars == {" ", "\t"}

EmptyInputMessage == "Please enter an Ethereum address"
MalformedMessage == "Invalid Ethereum address format"
GenericMessage == "Failed to analyze address"
ConnectivityMessage ==
    "Failed to connect to API. Make sure the backend is running on port 5001."

\* useState(null), useState("")
Null == [isNull |-> TRUE]
NoError == ""

\* ------------------------------------------------------ string helpers
Rep(c, n) == [i \in 1..n |-> c]

RECURSIVE trimStart(_)
trimStart(s) ==
    IF s # <<>> /\ Head(s) \in WhiteSpace THEN trimStart(Tail(s)) ELSE s

RECURSIVE trimEnd(_)
trimEnd(s) ==
    IF s # <<>> /\ s[Len(s)] \in WhiteSpace
    THEN trimEnd(SubSeq(s, 1, Len(s) - 1))
    ELSE s

\* String.prototype.trim
trim(s) == trimEnd(trimStart(s))

\* String.prototype.startsWith
startsWith(s, p) == Len(s) >= Len(p) /\ SubSeq(s, 1, Len(p)) = p

Prefix0x == <<"0", "x">>

\* The hex alphabet, which the handler never consults.
HexDigits ==
    {"0", "1", "2", "3", "4", "5", "6", "7", "8", "9",
     "a", "b", "c", "d", "e", "f", "A", "B", "C", "D", "E", "F"}

\* ------------------------------------------------------------- inputs
\* Whitespace runs typed or pasted around an address.
Pads == {<<>>} \cup {Rep(w, k) : w \in PadChars, k \in 1..MaxPad}

\* Trimmed forms: right and wrong prefix, lengths around AddrLen, a non-hex
\* body, and two short strings.
Cores ==
    {Prefix0x \o Rep("a", n) : n \in {AddrLen - 3, AddrLen - 2, AddrLen - 1}}
        \cup {Prefix0x \o Rep("z", AddrLen - 2),
              <<"1", "x">> \o Rep("a", AddrLen - 2),
              Prefix0x,
              <<"a", "b", "c">>}

\* What e.target.value can be: blank strings and padded cores.
Inputs ==
    {l \o t : l \in Pads, t \in Pads}
        \cup {l \o c \o t : l \in Pads, c \in Cores, t \in Pads}

\* ----------------------------------------------------------- service
\* JSON bodies of a success response (spec section 6: the AnalysisResult
\* shape, echoing the submitted address).
\* A confidence is counted in thousandths (0.8 is 800). An impact score is
\* q ten-thousandths plus r hundred-thousandths with r in -4..4, so that it is
\* never halfway between two four-decimal numbers (there the outcome of
\* toFixed rests on the binary double): -0.56786 is Score(-5679, 4).
Score(q, r) == [tenThousandths |-> q, rest |-> r]

Verdicts == {"flagged", "not flagged", "suspicious"}
Confidences == {0, 500, 800, 801, 950, 1000}

\* An explanations list in the service's own ranking, which is sorted neither
\* by name nor by score.
RankedExplanations ==
    <<<<"balance", Score(-5679, 4)>>, <<"age", Score(1234, 4)>>,
      <<"txs", Score(0, -1)>>>>

Payloads(a) ==
    {[address |-> a, verdict |-> v, confidence |-> c, transaction_count |-> 3] :
        v \in Verdicts, c \in Confidences}
      \cup
    {[address |-> a, verdict |-> "flagged", confidence |-> 950,
      transaction_count |-> 3, explanations |-> e] :
        e \in {<<>>, RankedExplanations}}

\* JSON bodies of a failure response: an object with an error string, with an
\* empty error string, and without the field.
ErrorBodies ==
    {[error |-> "too many requests"], [error |-> ""], [message |-> "nope"]}

Parsed(v) == [json |-> TRUE, value |-> v]
NotJSON == [json |-> FALSE]

\* What response.json() can resolve with: an object of either shape, or null.
JsonValues(a) == Payloads(a) \cup ErrorBodies \cup {Null}

\* What fetch can resolve with for a request carrying address a: either
\* status with any body.
Responses(a) ==
    {[ok |-> b, body |-> Parsed(v)] : b \in BOOLEAN, v \in JsonValues(a)}
        \cup {[ok |-> b, body |-> NotJSON] : b \in BOOLEAN}

\* -------------------------------------------------------------- state
VARIABLES
    address,   \* useState(""): the input's value
    result,    \* useState(null): the stored analysis result
    loading,   \* useState(false)
    error,     \* useState(""): the message rendered when truthy
    calls,     \* analyzeAddress invocations suspended at an await
    event      \* the event whose handler (or continuation) ran last

vars == <<address, result, loading, error, calls, event>>

Init ==
    /\ address = <<>>
    /\ result = Null
    /\ loading = FALSE
    /\ error = NoError
    /\ calls = <<>>
    /\ event = [kind |-> "mount"]

\* ------------------------------------------------------------ render
\* The input without its disabled attribute.
InputDisabled_never == FALSE

\* <input ... disabled={loading} />
InputDisabled == loading

\* The button with `loading ||` dropped from its disabled expression.
ButtonDisabled_blankOnly == trim(address) = <<>>

\* The button with `.trim()` dropped from its disabled expression.
ButtonDisabled_emptyOnly == loading \/ address = <<>>

\* The button also disabled while an error message is shown.
ButtonDisabled_afterError ==
    loading \/ trim(address) = <<>> \/ error # NoError

\* The button with `|| !address.trim()` dropped from its disabled expression.
ButtonDisabled_loadingOnly == loading

\* <button ... disabled={loading || !address.trim()}>
ButtonDisabled == loading \/ trim(address) = <<>>

\* 0.8, in thousandths
ConfidenceThreshold == 800

\* Reading a property of an object: undefined when the object has none.
Undefined == "undefined"
Field(obj, f) == IF f \in DOMAIN obj THEN obj[f] ELSE Undefined

\* getRiskColor
getRiskColor(verdict) ==
    CASE verdict = "flagged" -> "#ff4444"
      [] verdict = "not flagged" -> "#44ff44"
      [] OTHER -> "#ffaa44"

\* getRiskLevel with >= in place of >.
getRiskLevel_inclusive(verdict, confidence) ==
    IF verdict = "flagged"
    THEN (IF confidence >= ConfidenceThreshold THEN "High Risk" ELSE "Medium Risk")
    ELSE IF verdict = "not flagged"
    THEN (IF confidence >= ConfidenceThreshold THEN "Low Risk" ELSE "Medium Risk")
    ELSE "Unknown"

\* getRiskLevel
getRiskLevel(verdict, confidence) ==
    IF verdict = "flagged"
    THEN (IF confidence > ConfidenceThreshold THEN "High Risk" ELSE "Medium Risk")
    ELSE IF verdict = "not flagged"
    THEN (IF confidence > ConfidenceThreshold THEN "Low Risk" ELSE "Medium Risk")
    ELSE "Unknown"

\* The risk badge and risk level of the results section, rendered when result
\* is truthy.
RiskAssessment ==
    IF result # Null
    THEN [shown |-> TRUE,
          color |-> getRiskColor(Field(result, "verdict")),
          level |-> getRiskLevel(Field(result, "verdict"),
                                 Field(result, "confidence"))]
    ELSE [shown |-> FALSE]

\* impact.toFixed(4): the text of the nearest four-decimal number, as its
\* sign and its digits in ten-thousandths; a negative score that rounds to
\* zero keeps its sign ("-0.0000").
toFixed4(x) ==
    [sign |-> IF 10 * x.tenThousandths + x.rest < 0 THEN "-" ELSE "",
     digits |-> IF x.tenThousandths < 0
                THEN -x.tenThousandths ELSE x.tenThousandths]

\* The list rendered newest-first.
ExplanationItems_reversed(e) ==
    [i \in 1..Len(e) |->
        [key |-> i - 1,
         feature |-> e[Len(e) + 1 - i][1],
         impact |-> toFixed4(e[Len(e) + 1 - i][2])]]

\* result.explanations.map(([feature, impact], index) => <li key={index}>...)
ExplanationItems(e) ==
    [i \in 1..Len(e) |->
        [key |-> i - 1, feature |-> e[i][1], impact |-> toFixed4(e[i][2])]]

\* {result.explanations && result.explanations.length > 0 && (...)} inside
\* {result && (...)}
ExplanationsSection ==
    IF /\ result # Null
       /\ "explanations" \in DOMAIN result
       /\ Len(result.explanations) > 0
    THEN [shown |-> TRUE, items |-> ExplanationItems(result.explanations)]
    ELSE [shown |-> FALSE]

\* ----------------------------------------------------------- handlers
\* onChange={(e) => setAddress(e.target.value)}
setAddress(v) ==
    /\ ~InputDisabled
    /\ v # address
    /\ address' = v
    /\ event' = [kind |-> "change"]
    /\ UNCHANGED <<result, loading, error, calls>>

\* The two guards in the other order: the format check first.
ValidationError_formatFirst(a) ==
    IF ~startsWith(a, Prefix0x) \/ Len(a) # AddrLen THEN MalformedMessage
    ELSE IF trim(a) = <<>> THEN EmptyInputMessage
    ELSE NoError

\* The format check with a hex-alphabet test added.
ValidationError_hexOnly(a) ==
    IF trim(a) = <<>> THEN EmptyInputMessage
    ELSE IF \/ ~startsWith(a, Prefix0x)
            \/ Len(a) # AddrLen
            \/ \E k \in 3..Len(a) : a[k] \notin HexDigits
         THEN MalformedMessage
    ELSE NoError

\* The two guards at the top of analyzeAddress: the message set, or NoError
\* when both checks pass.
ValidationError(a) ==
    IF trim(a) = <<>> THEN EmptyInputMessage
    ELSE IF ~startsWith(a, Prefix0x) \/ Len(a) # AddrLen THEN MalformedMessage
    ELSE NoError

\* The request body with `.trim()` dropped.
RequestAddress_untrimmed(a) == a

\* body: JSON.stringify({ address: address.trim() })
RequestAddress(a) == trim(a)

\* The call suspended at `await fetch(...)`.
NewCall(a) == [address |-> RequestAddress(a), at |-> "fetch"]

\* The body of analyzeAddress with the rejecting branches also clearing the
\* stored result.
analyzeAddressCall_clearsResult ==
    /\ event' = [kind |-> "click"]
    /\ IF ValidationError(address) # NoError
       THEN /\ error' = ValidationError(address)
            /\ result' = Null
            /\ UNCHANGED <<address, loading, calls>>
       ELSE /\ loading' = TRUE
            /\ error' = NoError
            /\ result' = Null
            /\ calls' = Append(calls, NewCall(address))
            /\ UNCHANGED address

\* The body of analyzeAddress, up to the first await.
analyzeAddressCall ==
    /\ event' = [kind |-> "click"]
    /\ IF ValidationError(address) # NoError
       THEN /\ error' = ValidationError(address)
            /\ UNCHANGED <<address, result, loading, calls>>
       ELSE /\ loading' = TRUE
            /\ error' = NoError
            /\ result' = Null
            /\ calls' = Append(calls, NewCall(address))
            /\ UNCHANGED address

\* onClick={analyzeAddress}: a click reaches the handler only on an enabled
\* button.
analyzeAddress == ~ButtonDisabled /\ analyzeAddressCall

\* analyzeAddress invoked directly, past the button's disabled attribute (as
\* a test of the handler does): nothing in the handler looks at loading
\* or at the requests already pending, so a call made while attempts are
\* pending issues a further request.
analyzeAddressDirect == analyzeAddressCall

Remove(s, i) == SubSeq(s, 1, i - 1) \o SubSeq(s, i + 1, Len(s))

\* The attempt with its finally block dropped.
LoadingAfterAttempt_kept == TRUE

\* finally { setLoading(false) }
LoadingAfterAttempt == FALSE

\* catch (err) { setError(...) }
CatchMessage == ConnectivityMessage

\* The message the non-ok branch ends with: data.error || "Failed to analyze
\* address", or, when data is null and reading data.error throws, the catch
\* block's message.
ServiceErrorMessage(data) ==
    IF data = Null THEN CatchMessage
    ELSE IF "error" \in DOMAIN data /\ data.error # "" THEN data.error
    ELSE GenericMessage

\* The success branch storing a wrapper of the payload.
StoredResult_wrapped(data) == [data |-> data]

\* setResult(data) on response.ok
StoredResult(data) == data

\* fetch resolves: the call moves on to `await response.json()`.
fetchResolved(i, resp) ==
    /\ calls[i].at = "fetch"
    /\ calls' = [calls EXCEPT ![i] =
                    [address |-> calls[i].address, at |-> "json",
                     response |-> resp]]
    /\ event' = [kind |-> "fetchResolved", call |-> calls[i]]
    /\ UNCHANGED <<address, result, loading, error>>

\* fetch rejects: catch, then finally.
fetchRejected(i) ==
    /\ calls[i].at = "fetch"
    /\ error' = CatchMessage
    /\ loading' = LoadingAfterAttempt
    /\ calls' = Remove(calls, i)
    /\ event' = [kind |-> "fetchRejected", call |-> calls[i]]
    /\ UNCHANGED <<address, result>>

\* response.json() resolves: the response.ok branch (or, from its else branch
\* with a null body, the catch), then finally.
jsonResolved(i) ==
    /\ calls[i].at = "json"
    /\ calls[i].response.body.json
    /\ IF calls[i].response.ok
       THEN /\ result' = StoredResult(calls[i].response.body.value)
            /\ UNCHANGED error
       ELSE /\ error' = ServiceErrorMessage(calls[i].response.body.value)
            /\ UNCHANGED result
    /\ loading' = LoadingAfterAttempt
    /\ calls' = Remove(calls, i)
    /\ event' = [kind |-> "jsonResolved", call |-> calls[i]]
    /\ UNCHANGED address

\* response.json() rejects (the body is not JSON): catch, then finally.
jsonRejected(i) ==
    /\ calls[i].at = "json"
    /\ ~calls[i].response.body.json
    /\ error' = CatchMessage
    /\ loading' = LoadingAfterAttempt
    /\ calls' = Remove(calls, i)
    /\ event' = [kind |-> "jsonRejected", call |-> calls[i]]
    /\ UNCHANGED <<address, result>>

Change == \E v \in Inputs : setAddress(v)
FetchResolves ==
    \E i \in DOMAIN calls : \E r \in Responses(calls[i].address) :
        fetchResolved(i, r)
FetchRejects == \E i \in DOMAIN calls : fetchRejected(i)
JsonResolves == \E i \in DOMAIN calls : jsonResolved(i)
JsonRejects == \E i \in DOMAIN calls : jsonRejected(i)

Next ==
    \/ Change
    \/ analyzeAddress
    \/ FetchResolves
    \/ FetchRejects
    \/ JsonResolves
    \/ JsonRejects

Spec == Init /\ [][Next]_vars

\* The handler driven directly rather than through the button, from the
\* states a run of direct calls, edits and completions can leave the App in.
\* While loading is set the input is disabled, so the address is still the
\* one the last call accepted, that call is the last one pending, and result
\* and error are as it cleared them. With loading clear, earlier calls can
\* still be pending, and since one completion can store a result after
\* another has set an error, any stored value goes with any message. A
\* pending call is taken at its first await: the handler reads nothing of it.
PendingCalls ==
    UNION {[1..n -> {NewCall(a) : a \in {v \in Inputs : ValidationError(v) = NoError}}] :
              n \in 0..MaxCalls}

StoredValues == {Null} \cup JsonValues(Prefix0x \o Rep("a", AddrLen - 2))

ErrorValues ==
    {NoError, EmptyInputMessage, MalformedMessage, GenericMessage,
     ConnectivityMessage, "too many requests"}

DirectInit ==
    /\ address \in Inputs
    /\ calls \in PendingCalls
    /\ loading \in BOOLEAN
    /\ loading => /\ calls # <<>>
                  /\ ValidationError(address) = NoError
                  /\ calls[Len(calls)] = NewCall(address)
    /\ result \in IF loading THEN {Null} ELSE StoredValues
    /\ error \in IF loading THEN {NoError} ELSE ErrorValues
    /\ event = [kind |-> "mount"]

\* A test puts the App in one of these states and calls the handler once;
\* the state a call leaves is, up to MaxCalls pending requests, again one of
\* the states drawn.
NextDirect == event.kind = "mount" /\ analyzeAddressDirect

DirectSpec == DirectInit /\ [][NextDirect]_vars

\* Under FairSpec every pending promise settles and its continuation runs:
\* the event loop runs a settled promise's continuation, and the request is
\* taken to settle (the code sets no timeout of its own).
FairSpec ==
    /\ Spec
    /\ WF_vars(FetchResolves \/ FetchRejects)
    /\ WF_vars(JsonResolves \/ JsonRejects)

\* ------------------------------------------------------------ claims
\* RequestState as the render reads it.
Loading == loading
Succeeded == result # Null
Failed == error # NoError

\* t is s without its leading and trailing whitespace, said without trim().
IsTrimOf(t, s) ==
    \E i \in 1..(Len(s) + 1) : \E j \in 0..Len(s) :
        /\ t = SubSeq(s, i, j)
        /\ \A k \in 1..(i - 1) : s[k] \in WhiteSpace
        /\ \A k \in (j + 1)..Len(s) : s[k] \in WhiteSpace
        /\ t # <<>> => s[i] \notin WhiteSpace /\ s[j] \notin WhiteSpace

Blank(s) == \A k \in DOMAIN s : s[k] \in WhiteSpace

Settled(kind) == kind \in {"fetchRejected", "jsonResolved", "jsonRejected"}

\* The last event was a service-reported error: the transport succeeded, the
\* body parsed, the status was not a success.
ServiceErrorEvent == event.kind = "jsonResolved" /\ ~event.call.response.ok

HasErrorText(d) == "error" \in DOMAIN d /\ d.error # ""

\* C1: in every reachable state the loading flag, a stored result and a
\* non-empty error message are pairwise mutually exclusive.
C1_ExactlyOneVariant ==
    /\ ~(Loading /\ Succeeded)
    /\ ~(Loading /\ Failed)
    /\ ~(Succeeded /\ Failed)

\* C2: right after a submit whose input the validator rejects, the state is
\* Failed with the validator's message, no result and no loading flag remain,
\* and no request is outstanding.
C2_RejectedSubmitFails ==
    (event.kind = "click" /\ ValidationError(address) # NoError)
        => /\ error = ValidationError(address)
           /\ ~Succeeded
           /\ ~Loading
           /\ calls = <<>>

\* C3: a submit from a non-loading state whose input passes the handler's
\* validation enters Loading with result and error cleared and issues exactly
\* one request, carrying the trimmed address; no other step issues a request.
C3_OneRequestPerSubmit ==
    [][/\ (event'.kind = "click" /\ ~loading /\ ValidationError(address) = NoError)
            => /\ loading' /\ error' = NoError /\ result' = Null
               /\ Len(calls') = Len(calls) + 1
               /\ SubSeq(calls', 1, Len(calls)) = calls
               /\ calls'[Len(calls')].at = "fetch"
               /\ IsTrimOf(calls'[Len(calls')].address, address)
       /\ (event'.kind # "click" => Len(calls') <= Len(calls))
      ]_vars

\* A submission is pending whose request carries a trimmed address that
\* differs from the raw input.
C3_Witness ==
    /\ event.kind = "click" /\ loading /\ Len(calls) = 1
    /\ calls[1].at = "fetch" /\ calls[1].address # address

\* C4: Loading is entered only by a submit from a non-loading state, a result
\* is stored only by a success response arriving in Loading, and that step
\* leaves Loading with exactly the payload of the answered request stored
\* (whatever JSON value it is) and no error message.
C4_SuccessPath ==
    [][/\ (event'.kind = "jsonResolved" /\ event'.call.response.ok)
            => /\ loading /\ ~loading'
               /\ \E i \in DOMAIN calls : calls[i] = event'.call
               /\ result' = event'.call.response.body.value
               /\ error' = NoError
       /\ (loading' /\ ~loading => event'.kind = "click")
       /\ (result' # Null /\ result' # result
            => loading /\ event'.kind = "jsonResolved")
      ]_vars

C4_Witness ==
    /\ event.kind = "jsonResolved" /\ event.call.response.ok
    /\ result = event.call.response.body.value
    /\ Succeeded /\ "address" \in DOMAIN result
    /\ result.address = trim(address)
    /\ ~loading /\ error = NoError

\* C5: right after a service-reported error (a non-success status whose body
\* parsed) the state is Failed with the body's error text when it has one and
\* with the generic message when it has none, and no result is stored.
C5_ServiceError ==
    ServiceErrorEvent
        => LET d == event.call.response.body.value
           IN /\ HasErrorText(d) => error = d.error
              /\ ~HasErrorText(d) => error = GenericMessage
              /\ ~Succeeded /\ ~Loading

\* C6: right after a transport failure (fetch rejected, or the body could not
\* be parsed) the state is Failed with the connectivity message; right after
\* a service-reported error the message is not the connectivity message.
C6_TransportError ==
    /\ event.kind \in {"fetchRejected", "jsonRejected"}
        => /\ error = ConnectivityMessage
           /\ error # GenericMessage
           /\ ~Succeeded /\ ~Loading
    /\ ServiceErrorEvent => error # ConnectivityMessage

\* C7: every state entered by a completion has the loading flag false and a
\* result or a non-empty error, every failed completion has a non-empty
\* error, and every Loading state is followed by such a state.
C7_NeverLeftLoading ==
    /\ [](Settled(event.kind) => ~Loading /\ (Succeeded \/ Failed))
    /\ []((event.kind \in {"fetchRejected", "jsonRejected"} \/ ServiceErrorEvent)
            => Failed /\ ~Succeeded)
    /\ [](Loading => calls # <<>>)
    /\ (Loading ~> (~Loading /\ (Succeeded \/ Failed)))

\* C8: at most one request is in flight in every reachable state.
C8_AtMostOneInFlight == Len(calls) <= 1

C8_Witness == Len(calls) = 1 /\ loading /\ InputDisabled

\* C9: a click on the button can run the handler exactly when the state is
\* not Loading and the input has a character that is not whitespace.
C9_TriggerDisabled ==
    (ENABLED analyzeAddress) <=> ~(Loading \/ Blank(address))

\* A whitespace-only input outside Loading.
C9_Witness == ~Loading /\ address # <<>> /\ Blank(address)

\* C10: right after a submit of an input that does not trim to empty, the
\* error is the MalformedAddress message exactly when the trimmed string does
\* not start with "0x" or its length is not 42.
C10_MalformedOnTrimmed ==
    (event.kind = "click" /\ ~Blank(address))
        => ((error = MalformedMessage)
              <=> (~startsWith(trim(address), Prefix0x)
                     \/ Len(trim(address)) # AddrLen))

\* C11: when the handler runs on the empty string or on a string of
\* whitespace only, it sets the error to the EmptyInput message, not the
\* MalformedAddress message (which the same input would also earn), and
\* starts no request.
C11_EmptyInputFirst ==
    [][(event'.kind = "click" /\ Blank(address))
            => /\ error' = EmptyInputMessage
               /\ error' # MalformedMessage
               /\ calls' = calls /\ loading' = loading
      ]_vars

\* The handler ran on a non-empty string of whitespace while an earlier
\* request was pending.
C11_Witness ==
    /\ event.kind = "click" /\ address # <<>> /\ Blank(address)
    /\ error = EmptyInputMessage /\ calls # <<>>

\* C12: right after a submit of a 42-character string starting with "0x",
\* validation has passed (Loading, no error) and the request carries the
\* input with only its surrounding whitespace removed, whatever characters
\* follow the prefix.
C12_ShallowCheckPasses ==
    (event.kind = "click" /\ Len(address) = AddrLen
        /\ address[1] = "0" /\ address[2] = "x")
        => /\ Loading /\ ~Failed
           /\ Len(calls) = 1
           /\ IsTrimOf(calls[1].address, address)

\* A submitted address whose body is not hexadecimal.
C12_Witness ==
    /\ event.kind = "click" /\ Loading /\ Len(address) = AddrLen
    /\ \E k \in 3..Len(address) : address[k] \notin HexDigits \cup WhiteSpace
    /\ calls[1].address = address

\* C13: for every stored result the rendered risk level is High Risk for
\* flagged above 0.8, Low Risk for not flagged above 0.8, Medium Risk for
\* either verdict at or below 0.8, and Unknown for any other verdict; the
\* colour is the alert colour for flagged, the safe colour for not flagged
\* and the warning colour for any other verdict.
C13_Classify ==
    Succeeded
        => LET v == Field(result, "verdict")
               c == Field(result, "confidence")
               r == RiskAssessment
           IN /\ r.shown
              /\ (v = "flagged" /\ c > 800) => r.level = "High Risk"
              /\ (v = "flagged" /\ c <= 800) => r.level = "Medium Risk"
              /\ (v = "not flagged" /\ c > 800) => r.level = "Low Risk"
              /\ (v = "not flagged" /\ c <= 800) => r.level = "Medium Risk"
              /\ v \notin {"flagged", "not flagged"} => r.level = "Unknown"
              /\ v = "flagged" => r.color = "#ff4444"
              /\ v = "not flagged" => r.color = "#44ff44"
              /\ v \notin {"flagged", "not flagged"} => r.color = "#ffaa44"

\* A flagged result with confidence exactly 0.8 is shown as Medium Risk.
C13_Witness ==
    /\ Succeeded /\ Field(result, "verdict") = "flagged"
    /\ result.confidence = 800
    /\ RiskAssessment.level = "Medium Risk"

\* C14: in every Failed or Succeeded state (not Loading) the input can be
\* changed to a non-blank value, a click runs the handler whenever the input
\* is non-blank, and a click on an input that passes the handler's checks
\* enters Loading with a request issued.
C14_RetryAlwaysPossible ==
    (~Loading /\ (Failed \/ Succeeded))
        => /\ ENABLED (Change /\ ~Blank(address'))
           /\ ~Blank(address) => ENABLED analyzeAddress
           /\ ValidationError(address) = NoError
                => ENABLED (analyzeAddress /\ loading' /\ calls' # <<>>)

\* After a transport failure, with the same valid input still in place.
C14_Witness ==
    /\ ~Loading /\ error = ConnectivityMessage
    /\ ValidationError(address) = NoError

\* C15: the loading flag goes from true to false only in a completion step
\* (success, service error or transport error), which in the same step
\* records the outcome (the parsed body of a success response as the result,
\* an error message otherwise) and ends the call; every completion step
\* clears it; the step in between (the response arriving, its body not yet
\* read) leaves it set; and it goes from false to true only by a submit.
C15_LoadingClearedOnce ==
    [][/\ (loading /\ ~loading')
            => /\ Settled(event'.kind)
               /\ Len(calls') = Len(calls) - 1
               /\ IF event'.kind = "jsonResolved" /\ event'.call.response.ok
                  THEN result' = event'.call.response.body.value
                  ELSE error' # NoError
       /\ Settled(event'.kind)
            => /\ loading /\ ~loading'
               /\ \A i \in DOMAIN calls' : calls'[i] # event'.call
       /\ event'.kind = "fetchResolved" => loading /\ loading'
       /\ (~loading /\ loading') => event'.kind = "click"
      ]_vars

\* A service error has just cleared the flag.
C15_Witness == ServiceErrorEvent /\ ~loading /\ calls = <<>>

\* C17: for every stored result the explanations section is omitted when the
\* list is absent or empty; otherwise it has one entry per pair of the
\* service's list, in the service's order, each with that pair's feature
\* name and its score as the nearest four-decimal number, signed as the
\* score is.
C17_ExplanationsInOrder ==
    Succeeded
        => LET e == IF "explanations" \in DOMAIN result
                    THEN result.explanations ELSE <<>>
               sec == ExplanationsSection
           IN /\ e = <<>> => ~sec.shown
              /\ e # <<>>
                    => /\ sec.shown
                       /\ Len(sec.items) = Len(e)
                       /\ \A i \in 1..Len(e) :
                             /\ sec.items[i].feature = e[i][1]
                             /\ sec.items[i].impact.digits \in
                                   {e[i][2].tenThousandths,
                                    -e[i][2].tenThousandths}
                             /\ sec.items[i].impact.sign = "-"
                                   <=> 10 * e[i][2].tenThousandths
                                         + e[i][2].rest < 0

\* A three-entry list is rendered, its first entry the service's first
\* ("-0.5679"), its last a small negative score shown as "-0.0000".
C17_Witness ==
    /\ Succeeded /\ ExplanationsSection.shown
    /\ Len(ExplanationsSection.items) = 3
    /\ ExplanationsSection.items[1] =
          [key |-> 0, feature |-> "balance",
           impact |-> [sign |-> "-", digits |-> 5679]]
    /\ ExplanationsSection.items[3].impact = [sign |-> "-", digits |-> 0]

\* C18: no step taken in Loading changes the address input; every pending
\* request carries the current input without its surrounding whitespace; and
\* the call a completion step answers is a pending one whose address is the
\* trimmed input at that moment.
C18_NoStaleResponse ==
    [][/\ loading => address' = address
       /\ \A i \in DOMAIN calls : IsTrimOf(calls[i].address, address)
       /\ Settled(event'.kind)
            => /\ \E i \in DOMAIN calls : calls[i] = event'.call
               /\ IsTrimOf(event'.call.address, address')
      ]_vars

\* A result has been applied for a padded input's trimmed address.
C18_Witness ==
    /\ event.kind = "jsonResolved" /\ Succeeded
    /\ event.call.address # address
    /\ event.call.address = trim(address)

\* C19: a submit the handler's validation rejects sets the error to the
\* validator's message and leaves the loading flag, the stored result, the
\* address input and the pending calls as they were.
C19_RejectedSubmitFrame ==
    [][(event'.kind = "click" /\ ValidationError(address) # NoError)
            => /\ error' = ValidationError(address)
               /\ UNCHANGED <<loading, result, address, calls>>
      ]_vars

\* A rejected submit has left an earlier result in place.
C19_Witness ==
    /\ event.kind = "click" /\ error = MalformedMessage
    /\ Succeeded /\ ~Loading /\ calls = <<>>

\* C20: driven through the input and the button, the error is never the
\* EmptyInput message; right after a click it is empty or the
\* MalformedAddress message.
C20_EmptyInputUnreachable ==
    /\ error # EmptyInputMessage
    /\ event.kind = "click" => error \in {NoError, MalformedMessage}

\* A click has been rejected for its format.
C20_Witness ==
    /\ event.kind = "click" /\ error = MalformedMessage /\ ~Blank(address)

====
